---- MODULE Spec2Model ----
(***************************************************************************)
(* Raster-to-vector tracer (src/services/offlineTracer.ts) and the batch   *)
(* loop of the App that drives it.                                         *)
(*                                                                         *)
(* Numbers: shader floats are modelled exactly, as integers.  A channel    *)
(* is its 8-bit value 0..255 (the shader's c/255), a kernel weight is in   *)
(* thousandths, so a blurred channel is a sum in units of 1/1000.          *)
(***************************************************************************)
EXTENDS Integers, Sequences, FiniteSets, TLC

VARIABLES
  file,             \* the input File: [w, h, px, ok] (ok = FALSE: cannot be decoded)
  simplification,   \* the simplification argument
  pc,               \* position of the traceImageOffline call
  url,              \* the object URL of the call: "none", "live", "revoked"
  packedData,       \* Uint8Array read back by processOnGPU
  width, height,    \* naturalWidth, naturalHeight as returned by processOnGPU
  quantizedColors,  \* Uint32Array(width * height)
  uniqueColors,     \* Set<number>, in insertion order
  pending,          \* colours uniqueColors.forEach has still to visit
  svgPaths,         \* the path elements written so far
  settled,          \* what the promise settled with
  run,              \* 1: first call, 2: the same call made again
  firstSettled,     \* what the first call settled with
  u_qFactor,        \* quantize step alone: the uniform
  channel,          \* quantize step alone: a blurred channel, in thousandths
  stored,           \* quantize step alone: the 8-bit value the framebuffer holds
  requantized,      \* quantize step alone: the stored value quantized again
  qpc,              \* quantize step alone: "off", "input", "stored", "again"
  batchItems,       \* App: the queue of BatchItem
  isProcessing,     \* App: useState(false)
  conversionMode,   \* App: 'raster-to-vector' | 'vector-to-raster'
  config,           \* App: BatchConfig (simplification, offlineMode)
  controllers,      \* App: the AbortControllers made so far, TRUE once aborted
  abortRef,         \* App: abortControllerRef.current, an index of controllers, 0 for null
  loops,            \* App: the processBatch calls made so far
  refines,          \* App: the refineWithAI calls made so far
  nextId,           \* App: ids given out so far
  hostedCalls,      \* App: the calls of convertToVector made so far
  events,           \* App: number of user events so far
  calls,            \* concurrent calls: the locals of each traceImageOffline call
  heap,             \* concurrent calls: the typed arrays and sets allocated so far
  svgString,        \* VectorEditor: the svgString prop, NoEditor while none is mounted
  shapes,           \* VectorEditor: useState<EditableShape[]>([])
  selectedIndex     \* VectorEditor: useState<number | null>(null)

traceVars == <<file, simplification, pc, url, packedData, width, height,
               quantizedColors, uniqueColors, pending, svgPaths, settled, run, firstSettled>>
quantVars == <<u_qFactor, channel, stored, requantized, qpc>>
appVars == <<batchItems, isProcessing, conversionMode, config, controllers, abortRef,
             loops, refines, nextId, hostedCalls, events>>

pairVars == <<calls, heap>>

editorVars == <<svgString, shapes, selectedIndex>>

vars == <<traceVars, quantVars, appVars, pairVars, editorVars>>

----------------------------------------------------------------------------
(* Bounds of the checked inputs *)

MaxWidth == 3
MaxHeight == 3
MaxPixels == 4

Palette == { <<0, 0, 0>>, <<255, 0, 0>>, <<0, 0, 255>> }

\* simplification values: rowStep 1, 2, 3, 5 and qFactor 4, 13, 20, 33
Simplifications == {0, 40, 60, 100}

Min(a, b) == IF a < b THEN a ELSE b
Max(a, b) == IF a > b THEN a ELSE b

\* images whose rows are each of one colour
RowImages ==
  { [w |-> iw, h |-> ih, px |-> [y \in 0..(ih - 1) |-> [x \in 0..(iw - 1) |-> rows[y]]], ok |-> TRUE] :
      <<iw, ih, rows>> \in UNION { { <<a, b, r>> : r \in [0..(b - 1) -> Palette] } :
                                     <<a, b>> \in (1..MaxWidth) \X (1..MaxHeight) } }

\* images whose columns are each of one colour
ColImages ==
  { [w |-> iw, h |-> ih, px |-> [y \in 0..(ih - 1) |-> [x \in 0..(iw - 1) |-> cols[x]]], ok |-> TRUE] :
      <<iw, ih, cols>> \in UNION { { <<a, b, c>> : c \in [0..(a - 1) -> Palette] } :
                                     <<a, b>> \in (1..MaxWidth) \X (1..MaxHeight) } }

\* every image of at most MaxPixels pixels
FullImages ==
  UNION { { [w |-> d[1], h |-> d[2], px |-> p, ok |-> TRUE] :
              p \in [0..(d[2] - 1) -> [0..(d[1] - 1) -> Palette]] } :
          d \in { e \in (1..MaxPixels) \X (1..MaxPixels) : e[1] * e[2] <= MaxPixels } }

\* images that load with naturalWidth or naturalHeight 0
EmptyImages ==
  { [w |-> d[1], h |-> d[2], px |-> [y \in 0..(d[2] - 1) |-> [x \in 0..(d[1] - 1) |-> <<0, 0, 0>>]],
     ok |-> TRUE] : d \in { <<0, 0>>, <<0, 1>>, <<1, 0>> } }

\* a file that is no image: img.onerror fires
BrokenFile == [w |-> 0, h |-> 0, px |-> <<>>, ok |-> FALSE]

\* the 4x4 image that is red except for its blue top row
Red == <<255, 0, 0>>
Blue == <<0, 0, 255>>
Scenario4x4 ==
  [w |-> 4, h |-> 4, px |-> [y \in 0..3 |-> [x \in 0..3 |-> IF y = 0 THEN Blue ELSE Red]], ok |-> TRUE]

Files == RowImages \cup ColImages \cup FullImages \cup EmptyImages \cup {BrokenFile, Scenario4x4}

----------------------------------------------------------------------------
(* PACKED_OPTIMIZED_SHADER *)

\* the 5x5 kernel, in thousandths, index (j + 2) * 5 + (i + 2) + 1
w == <<  3, 13,  22, 13,  3,
        13, 59,  97, 59, 13,
        22, 97, 159, 97, 22,
        13, 59,  97, 59, 13,
         3, 13,  22, 13,  3 >>

\* u_qFactor
QFactor(s) == Max(4, s \div 3)

\* quantize: floor(color * 255 / u_qFactor + 0.5) * u_qFactor, for a channel
\* given in thousandths of its 8-bit value; the result is in 8-bit units and
\* is not yet clamped
QuantizeTruncate(milli, q) == (milli \div (1000 * q)) * q
QuantizeUp(milli, q) == ((milli \div (1000 * q)) + 1) * q
quantize(milli, q) == ((2 * milli + 1000 * q) \div (2000 * q)) * q

\* luminance, times 1000
luminance(c) == 299 * c[1] + 587 * c[2] + 114 * c[3]

\* gl.pixelStorei(gl.UNPACK_FLIP_Y_WEBGL, false)
UNPACK_FLIP_Y_WEBGL == FALSE

\* texImage2D: texture row t holds source row t, or h-1-t when the upload flips
texImage2D(img) ==
  [t \in 0..(img.h - 1) |-> img.px[IF UNPACK_FLIP_Y_WEBGL THEN img.h - 1 - t ELSE t]]

\* vertex positions and texture coordinates of the quad, two numbers per vertex
positions == << -1, -1,   1, -1,  -1, 1,   -1, 1,   1, -1,   1, 1 >>
texCoords == <<  0,  0,   1,  0,   0, 1,    0, 1,   1,  0,   1, 1 >>

\* the texture coordinate (0 or 1) given to the vertices at NDC x = -1, y = -1
UAtLeft == texCoords[2 * (CHOOSE k \in 0..5 : positions[2 * k + 1] = -1) + 1]
VAtBottom == texCoords[2 * (CHOOSE k \in 0..5 : positions[2 * k + 2] = -1) + 2]

\* v_texCoord of the fragment at window (fx, fy), fy = 0 the bottom row, as the
\* texel it is the centre of
TexelX(fx, wd) == IF UAtLeft = 0 THEN fx ELSE wd - 1 - fx
TexelY(fy, ht) == IF VAtBottom = 0 THEN fy ELSE ht - 1 - fy

\* CLAMP_TO_EDGE
Clamp(v, n) == Max(0, Min(n - 1, v))

\* texture(u_image, v_texCoord + vec2(i, j) * px).rgb
texture(tex, wd, ht, tx, ty) == tex[Clamp(ty, ht)][Clamp(tx, wd)]

\* blurred, one channel, in thousandths
BlurRow(tex, wd, ht, tx, ty, j, ch) ==
    w[(j + 2) * 5 + 1] * texture(tex, wd, ht, tx - 2, ty + j)[ch]
  + w[(j + 2) * 5 + 2] * texture(tex, wd, ht, tx - 1, ty + j)[ch]
  + w[(j + 2) * 5 + 3] * texture(tex, wd, ht, tx, ty + j)[ch]
  + w[(j + 2) * 5 + 4] * texture(tex, wd, ht, tx + 1, ty + j)[ch]
  + w[(j + 2) * 5 + 5] * texture(tex, wd, ht, tx + 2, ty + j)[ch]

blurred(tex, wd, ht, tx, ty, ch) ==
    BlurRow(tex, wd, ht, tx, ty, -2, ch) + BlurRow(tex, wd, ht, tx, ty, -1, ch)
  + BlurRow(tex, wd, ht, tx, ty, 0, ch) + BlurRow(tex, wd, ht, tx, ty, 1, ch)
  + BlurRow(tex, wd, ht, tx, ty, 2, ch)

\* luminance(quantize(texture(...).rgb)), times 1000
QLum(tex, wd, ht, tx, ty, q) ==
  LET c == texture(tex, wd, ht, tx, ty)
  IN luminance(<<quantize(1000 * c[1], q), quantize(1000 * c[2], q), quantize(1000 * c[3], q)>>)

Abs(a) == IF a < 0 THEN -a ELSE a

\* edge > 0.01, both sides times 255 * 1000
Edge(tex, wd, ht, tx, ty, q) ==
    Abs(QLum(tex, wd, ht, tx - 1, ty, q) - QLum(tex, wd, ht, tx + 1, ty, q))
  + Abs(QLum(tex, wd, ht, tx, ty - 1, q) - QLum(tex, wd, ht, tx, ty + 1, q)) > 2550

\* an RGBA8 framebuffer stores a channel clamped to [0, 1]
Store8(v) == Min(255, Max(0, v))

\* main(): channel ch (1..4) of fragColor, for the fragment whose v_texCoord is
\* the centre of texel (tx, ty): vec4(qColor, edge > 0.01 ? 1.0 : 0.0)
fragColor(tex, wd, ht, tx, ty, q, ch) ==
  IF ch = 4
    THEN (IF Edge(tex, wd, ht, tx, ty, q) THEN 255 ELSE 0)
    ELSE Store8(quantize(blurred(tex, wd, ht, tx, ty, ch), q))

----------------------------------------------------------------------------
(* processOnGPU *)

\* gl.drawArrays then gl.readPixels(0, 0, width, height, RGBA, UNSIGNED_BYTE):
\* byte k of packedData is channel k % 4 of the window pixel (k / 4) % width
\* of window row (k / 4) / width, row 0 being the bottom row
readPixels(img, s) ==
  LET tex == texImage2D(img)
      q == QFactor(s)
  IN [k \in 0..(img.w * img.h * 4 - 1) |->
        LET fx == (k \div 4) % img.w
            fy == (k \div 4) \div img.w
            tx == TexelX(fx, img.w)
            ty == TexelY(fy, img.h)
        IN fragColor(tex, img.w, img.h, tx, ty, q, (k % 4) + 1)]

\* what processOnGPU does: throws, or returns { packedData, width, height }
processOnGPU(img, s, gl, program) ==
  IF ~gl THEN [threw |-> TRUE, message |-> "WebGL 2 not supported."]
  ELSE IF ~program THEN [threw |-> TRUE, message |-> "Failed to compile shaders."]
  ELSE [threw |-> FALSE, packedData |-> readPixels(img, s), width |-> img.w, height |-> img.h]

----------------------------------------------------------------------------
(* traceImageOffline: the code that runs after processOnGPU has returned *)

\* (packedData[srcIdx] << 16) | (packedData[srcIdx + 1] << 8) | packedData[srcIdx + 2]
packedColor(pd, srcIdx) == pd[srcIdx] * 65536 + pd[srcIdx + 1] * 256 + pd[srcIdx + 2]

QuantizedColors(pd, wd, ht) == [i \in 0..(wd * ht - 1) |-> packedColor(pd, i * 4)]

InSeq(c, sq) == \E k \in 1..Len(sq) : sq[k] = c

\* Set.add keeps the first insertion
SetAdd(sq, c) == IF InSeq(c, sq) THEN sq ELSE Append(sq, c)

\* if (packedColor !== 0)
AnyColor(c) == TRUE
IsShapeColor(c) == c # 0

\* the colours added to uniqueColors, from index i on
RECURSIVE CollectFrom(_, _, _, _)
CollectFrom(qc, n, i, acc) ==
  IF i >= n THEN acc
  ELSE CollectFrom(qc, n, i + 1, IF IsShapeColor(qc[i]) THEN SetAdd(acc, qc[i]) ELSE acc)

\* rowStep
EveryRow(s) == 1
RowStep(s) == Max(1, s \div 20)

\* `M${startX},${svgY}h${x - startX}v${rowStep}h${startX - x}z `
ClosedSpanPathCmd(startX, svgY, x, rowStep) ==
  [M |-> <<startX, svgY>>, h |-> x - startX + 1, v |-> rowStep, hBack |-> startX - x - 1]
UnitHighPathCmd(startX, svgY, x, rowStep) ==
  [M |-> <<startX, svgY>>, h |-> x - startX, v |-> 1, hBack |-> startX - x]
PathCmd(startX, svgY, x, rowStep) ==
  [M |-> <<startX, svgY>>, h |-> x - startX, v |-> rowStep, hBack |-> startX - x]

\* SVG Y=0 corresponds to data row 'height-1'
SameRowIndex(ht, svgY) == svgY
dataRowIndex(ht, svgY) == ht - 1 - svgY

\* the inner loop over x of one row, and the close of a run open at the row's end
RECURSIVE ScanRow(_, _, _, _, _, _, _, _, _)
ScanRow(qc, wd, dataRowOffset, svgY, rowStep, color, x, startX, pathData) ==
  IF x >= wd
    THEN (IF startX # -1 THEN Append(pathData, PathCmd(startX, svgY, wd, rowStep)) ELSE pathData)
    ELSE IF qc[dataRowOffset + x] = color
      THEN ScanRow(qc, wd, dataRowOffset, svgY, rowStep, color, x + 1,
                   IF startX = -1 THEN x ELSE startX, pathData)
      ELSE IF startX # -1
        THEN ScanRow(qc, wd, dataRowOffset, svgY, rowStep, color, x + 1, -1,
                     Append(pathData, PathCmd(startX, svgY, x, rowStep)))
        ELSE ScanRow(qc, wd, dataRowOffset, svgY, rowStep, color, x + 1, -1, pathData)

\* for (let svgY = 0; svgY < height; svgY += rowStep)
RECURSIVE ScanRows(_, _, _, _, _, _, _)
ScanRows(qc, wd, ht, rowStep, color, svgY, pathData) ==
  IF svgY >= ht THEN pathData
  ELSE ScanRows(qc, wd, ht, rowStep, color, svgY + rowStep,
                ScanRow(qc, wd, dataRowIndex(ht, svgY) * wd, svgY, rowStep, color, 0, -1, pathData))

PathData(qc, wd, ht, rowStep, color) == ScanRows(qc, wd, ht, rowStep, color, 0, <<>>)

\* fill="rgb(${r},${g},${b})"
ReversedFill(color) == << color % 256, (color \div 256) % 256, (color \div 65536) % 256 >>
Fill(color) == << (color \div 65536) % 256, (color \div 256) % 256, color % 256 >>

\* if (pathData) svgPaths += `<path d="${pathData}" fill="rgb(${r},${g},${b})" />`
AlwaysAddPath(paths, pathData, color) == Append(paths, [d |-> pathData, fill |-> Fill(color)])
AddPath(paths, pathData, color) ==
  IF pathData # <<>> THEN Append(paths, [d |-> pathData, fill |-> Fill(color)]) ELSE paths

\* `<svg viewBox="0 0 ${width} ${height}" xmlns=... shape-rendering="crispEdges">${svgPaths}</svg>`
TransposedSvg(wd, ht, paths) ==
  [viewBox |-> <<0, 0, ht, wd>>, xmlns |-> "http://www.w3.org/2000/svg",
   shapeRendering |-> "crispEdges", paths |-> paths]
Svg(wd, ht, paths) ==
  [viewBox |-> <<0, 0, wd, ht>>, xmlns |-> "http://www.w3.org/2000/svg",
   shapeRendering |-> "crispEdges", paths |-> paths]

----------------------------------------------------------------------------
(* The call of traceImageOffline, step by step *)

NoResult == [state |-> "pending"]

\* what a promise rejects with: new Error(message), or a bare string
ErrorReason(message) == [isError |-> TRUE, text |-> message]
StringReason(text) == [isError |-> FALSE, text |-> text]
Rejected(reason) == [state |-> "rejected", reason |-> reason]
Fulfilled(value) == [state |-> "resolved", svg |-> value]

\* the quantize step alone is not running
QuantOff ==
  /\ u_qFactor = 0
  /\ channel = 0
  /\ stored = 0
  /\ requantized = 0
  /\ qpc = "off"

\* BatchConfig as the App creates it
InitialConfig == [simplification |-> 20, offlineMode |-> TRUE]

\* the App is not running
AppOff ==
  /\ batchItems = <<>>
  /\ isProcessing = FALSE
  /\ conversionMode = "raster-to-vector"
  /\ config = InitialConfig
  /\ controllers = <<>>
  /\ abortRef = 0
  /\ loops = <<>>
  /\ refines = <<>>
  /\ nextId = 0
  /\ hostedCalls = {}
  /\ events = 0

\* no concurrent calls are being followed
\* the value of svgString while no editor is mounted
NoEditor == [off |-> TRUE]

EditorOff ==
  /\ svgString = NoEditor
  /\ shapes = <<>>
  /\ selectedIndex = [null |-> TRUE]

PairOff ==
  /\ calls = <<>>
  /\ heap = <<>>

Init ==
  /\ file \in Files
  /\ simplification \in Simplifications
  /\ pc = "idle"
  /\ url = "none"
  /\ packedData = <<>>
  /\ width = 0
  /\ height = 0
  /\ quantizedColors = <<>>
  /\ uniqueColors = <<>>
  /\ pending = <<>>
  /\ svgPaths = <<>>
  /\ settled = NoResult
  /\ run = 1
  /\ firstSettled = NoResult
  /\ QuantOff
  /\ AppOff
  /\ PairOff
  /\ EditorOff

\* traceImageOffline(file, simplification): new Image(), createObjectURL, img.src = url
traceImageOffline ==
  /\ pc = "idle"
  /\ pc' = "loading"
  /\ url' = "live"
  /\ settled' = NoResult
  /\ UNCHANGED <<file, simplification, packedData, width, height, quantizedColors,
                 uniqueColors, pending, svgPaths, run, firstSettled, quantVars, appVars, pairVars, editorVars>>

\* img.onerror
ImgOnError ==
  /\ pc = "loading"
  /\ ~file.ok
  /\ settled' = Rejected(StringReason("Image load error"))
  /\ pc' = "rejected"
  /\ UNCHANGED <<file, simplification, url, packedData, width, height, quantizedColors,
                 uniqueColors, pending, svgPaths, run, firstSettled, quantVars, appVars, pairVars, editorVars>>

\* img.onload up to the await: processOnGPU runs, and throws or returns
ImgOnLoad ==
  /\ pc = "loading"
  /\ file.ok
  /\ \E gl \in BOOLEAN, program \in BOOLEAN :
       LET r == processOnGPU(file, simplification, gl, program)
       IN IF r.threw
            THEN /\ settled' = Rejected(ErrorReason(r.message))
                 /\ pc' = "rejected"
                 /\ UNCHANGED <<packedData, width, height>>
            ELSE /\ packedData' = r.packedData
                 /\ width' = r.width
                 /\ height' = r.height
                 /\ pc' = "processed"
                 /\ UNCHANGED settled
  /\ UNCHANGED <<file, simplification, url, quantizedColors, uniqueColors, pending,
                 svgPaths, run, firstSettled, quantVars, appVars, pairVars, editorVars>>

\* new Set<number>()
NewSet == <<>>

\* the loops that fill quantizedColors and uniqueColors
CollectColors ==
  /\ pc = "processed"
  /\ quantizedColors' = QuantizedColors(packedData, width, height)
  /\ uniqueColors' = CollectFrom(quantizedColors', width * height, 0, NewSet)
  /\ pending' = uniqueColors'
  /\ svgPaths' = <<>>
  /\ pc' = "tracing"
  /\ UNCHANGED <<file, simplification, url, packedData, width, height, settled, run, firstSettled, quantVars, appVars, pairVars, editorVars>>

\* one call of the uniqueColors.forEach callback, in insertion order
AnyOrderForEach ==
  /\ pc = "tracing"
  /\ pending # <<>>
  /\ \E k \in 1..Len(pending) :
       /\ svgPaths' = AddPath(svgPaths,
                              PathData(quantizedColors, width, height, RowStep(simplification), pending[k]),
                              pending[k])
       /\ pending' = [i \in 1..(Len(pending) - 1) |-> IF i < k THEN pending[i] ELSE pending[i + 1]]
  /\ UNCHANGED <<file, simplification, pc, url, packedData, width, height, quantizedColors,
                 uniqueColors, settled, run, firstSettled, quantVars, appVars, pairVars, editorVars>>
ForEachColor ==
  /\ pc = "tracing"
  /\ pending # <<>>
  /\ LET color == Head(pending)
     IN svgPaths' = AddPath(svgPaths,
                            PathData(quantizedColors, width, height, RowStep(simplification), color),
                            color)
  /\ pending' = Tail(pending)
  /\ UNCHANGED <<file, simplification, pc, url, packedData, width, height, quantizedColors,
                 uniqueColors, settled, run, firstSettled, quantVars, appVars, pairVars, editorVars>>

\* the svg string, URL.revokeObjectURL(url), resolve(svg)
Resolve ==
  /\ pc = "tracing"
  /\ pending = <<>>
  /\ url' = "revoked"
  /\ settled' = Fulfilled(Svg(width, height, svgPaths))
  /\ pc' = "resolved"
  /\ UNCHANGED <<file, simplification, packedData, width, height, quantizedColors,
                 uniqueColors, pending, svgPaths, run, firstSettled, quantVars, appVars, pairVars, editorVars>>

\* the caller runs the pipeline a second time on the same file and value
CallAgain ==
  /\ pc = "resolved"
  /\ run = 1
  /\ run' = 2
  /\ firstSettled' = settled
  /\ pc' = "idle"
  /\ url' = "none"
  /\ UNCHANGED <<file, simplification, packedData, width, height, quantizedColors,
                 uniqueColors, pending, svgPaths, settled, quantVars, appVars, pairVars, editorVars>>

Next ==
  \/ traceImageOffline
  \/ ImgOnError
  \/ ImgOnLoad
  \/ CollectColors
  \/ ForEachColor
  \/ Resolve
  \/ CallAgain

Spec == Init /\ [][Next]_vars

----------------------------------------------------------------------------
(* The quantize step alone: a blurred channel is quantized and stored in the *)
(* RGBA8 framebuffer, and the stored value is quantized and stored again     *)

\* blurred channel values: every 8-bit value and every half way point
Channels == { 500 * n : n \in 0..510 }

\* u_qFactor for simplification 0..100
QFactors == { QFactor(s) : s \in 0..100 }

\* no single call of traceImageOffline is being followed
TraceOff ==
  /\ file = BrokenFile
  /\ simplification = 0
  /\ pc = "off"
  /\ url = "none"
  /\ packedData = <<>>
  /\ width = 0
  /\ height = 0
  /\ quantizedColors = <<>>
  /\ uniqueColors = <<>>
  /\ pending = <<>>
  /\ svgPaths = <<>>
  /\ settled = NoResult
  /\ run = 1
  /\ firstSettled = NoResult

InitQuantize ==
  /\ TraceOff
  /\ AppOff
  /\ PairOff
  /\ EditorOff
  /\ u_qFactor \in QFactors
  /\ channel \in Channels
  /\ stored = 0
  /\ requantized = 0
  /\ qpc = "input"

\* fragColor = vec4(quantize(blurred), ...), written to the framebuffer
QuantizeStore ==
  /\ qpc = "input"
  /\ stored' = Store8(quantize(channel, u_qFactor))
  /\ qpc' = "stored"
  /\ UNCHANGED <<traceVars, appVars, pairVars, editorVars, u_qFactor, channel, requantized>>

\* the same step on the stored value
QuantizeAgain ==
  /\ qpc = "stored"
  /\ requantized' = Store8(quantize(1000 * stored, u_qFactor))
  /\ qpc' = "again"
  /\ UNCHANGED <<traceVars, appVars, pairVars, editorVars, u_qFactor, channel, stored>>

NextQuantize == QuantizeStore \/ QuantizeAgain

SpecQuantize == InitQuantize /\ [][NextQuantize]_vars

----------------------------------------------------------------------------
(* traceImageOffline as one function of its inputs: what the promise settles *)
(* with for a file, a simplification value and a device                      *)

RECURSIVE ForEachFrom(_, _, _, _, _, _)
ForEachFrom(qc, wd, ht, rowStep, colors, paths) ==
  IF colors = <<>> THEN paths
  ELSE ForEachFrom(qc, wd, ht, rowStep, Tail(colors),
                   AddPath(paths, PathData(qc, wd, ht, rowStep, Head(colors)), Head(colors)))

Settles(f, s, gl, program) ==
  IF ~f.ok THEN Rejected(StringReason("Image load error"))
  ELSE LET r == processOnGPU(f, s, gl, program)
       IN IF r.threw THEN Rejected(ErrorReason(r.message))
          ELSE LET qc == QuantizedColors(r.packedData, r.width, r.height)
                   uc == CollectFrom(qc, r.width * r.height, 0, NewSet)
               IN Fulfilled(Svg(r.width, r.height,
                                ForEachFrom(qc, r.width, r.height, RowStep(s), uc, <<>>)))

----------------------------------------------------------------------------
(* The App: the queue, the settings and the batch loop *)

MaxItems == 2
MaxEvents == 3

Null == [null |-> TRUE]

\* the files a user drops: two one-pixel images and a file that is no image
RedPixel == [w |-> 1, h |-> 1, px |-> [y \in 0..0 |-> [x \in 0..0 |-> Red]], ok |-> TRUE]
BluePixel == [w |-> 1, h |-> 1, px |-> [y \in 0..0 |-> [x \in 0..0 |-> Blue]], ok |-> TRUE]
AppFiles == {RedPixel, BluePixel, BrokenFile}

\* presets
presets == << [name |-> "Standard", simplification |-> 20],
              [name |-> "Logo", simplification |-> 40],
              [name |-> "Detailed", simplification |-> 5],
              [name |-> "Stencil", simplification |-> 70] >>

\* <input type="range" min="0" max="100" step="5">
SliderValues == { 5 * n : n \in 0..20 }

\* the slider positions the user picks
UnclampedInputs == {-5, 105}
SliderInputs == { v \in SliderValues : v \in {0, 100} }

InitApp ==
  /\ TraceOff
  /\ QuantOff
  /\ AppOff
  /\ PairOff
  /\ EditorOff

\* handleImagesSelected maps each file to a new item
NewItem(id, f) ==
  [id |-> id, file |-> f, status |-> "IDLE", result |-> Null, error |-> Null, progress |-> 0]

\* the setBatchItems updaters of processBatch and refineWithAI
SetAnalyzing(items, id, progress) ==
  [i \in 1..Len(items) |->
     IF items[i].id = id
       THEN [items[i] EXCEPT !.status = "ANALYZING", !.progress = progress]
       ELSE items[i]]

SetCompleted(items, id, result) ==
  [i \in 1..Len(items) |->
     IF items[i].id = id
       THEN [items[i] EXCEPT !.status = "COMPLETED", !.result = result, !.progress = 100]
       ELSE items[i]]

SetError(items, id, error) ==
  [i \in 1..Len(items) |->
     IF items[i].id = id
       THEN [items[i] EXCEPT !.status = "ERROR", !.error = error, !.progress = 0]
       ELSE items[i]]

\* refineWithAI's catch leaves progress as it is
SetRefineError(items, id) ==
  [i \in 1..Len(items) |->
     IF items[i].id = id
       THEN [items[i] EXCEPT !.status = "ERROR", !.error = [message |-> "AI refinement failed"]]
       ELSE items[i]]

\* err.message || 'Processing failed'
RawErrMessage(err) == IF err.isError THEN [message |-> err.text] ELSE Null
ErrMessage(err) ==
  IF err.isError /\ err.text # "" THEN [message |-> err.text] ELSE [message |-> "Processing failed"]

\* abortControllerRef.current?.signal.aborted
NeverAborted == FALSE
Aborted == abortRef # 0 /\ controllers[abortRef]

\* abortControllerRef.current?.abort()
AbortCurrent ==
  IF abortRef = 0 THEN controllers ELSE [controllers EXCEPT ![abortRef] = TRUE]

\* the first await of an iteration
StartPhase(mode, cfg) ==
  IF mode = "raster-to-vector"
    THEN (IF cfg.offlineMode THEN "trace" ELSE "read")
    ELSE "text"

\* handleImagesSelected: the Dropzone is mounted only while the queue is empty
ImagesSelected(dropped) ==
  /\ batchItems = <<>>
  /\ ~isProcessing
  /\ \E n \in 1..MaxItems : \E files \in [1..n -> dropped] :
       /\ batchItems' = [i \in 1..n |-> NewItem(nextId + i, files[i])]
       /\ nextId' = nextId + n
  /\ UNCHANGED <<traceVars, quantVars, pairVars, editorVars, isProcessing, conversionMode, config, controllers,
                 abortRef, loops, refines, hostedCalls>>

handleImagesSelected ==
  /\ events < MaxEvents
  /\ ImagesSelected(AppFiles)
  /\ events' = events + 1

\* clearQueue (Reset Queue, disabled while processing)
clearQueue ==
  /\ events < MaxEvents
  /\ batchItems # <<>>
  /\ ~isProcessing
  /\ batchItems' = <<>>
  /\ isProcessing' = FALSE
  /\ controllers' = AbortCurrent
  /\ events' = events + 1
  /\ UNCHANGED <<traceVars, quantVars, pairVars, editorVars, conversionMode, config, abortRef, loops, refines,
                 nextId, hostedCalls>>

\* cancelBatch (Abort, shown while processing)
BatchCancelled ==
  /\ isProcessing
  /\ controllers' = AbortCurrent
  /\ isProcessing' = FALSE
  /\ UNCHANGED <<traceVars, quantVars, pairVars, editorVars, batchItems, conversionMode, config, abortRef, loops,
                 refines, nextId, hostedCalls>>

cancelBatch ==
  /\ events < MaxEvents
  /\ BatchCancelled
  /\ events' = events + 1

\* removeBatchItem (Delete, shown while not processing)
removeBatchItem ==
  /\ events < MaxEvents
  /\ ~isProcessing
  /\ \E k \in 1..Len(batchItems) :
       batchItems' = SelectSeq(batchItems, LAMBDA it : it.id # batchItems[k].id)
  /\ events' = events + 1
  /\ UNCHANGED <<traceVars, quantVars, pairVars, editorVars, isProcessing, conversionMode, config, controllers,
                 abortRef, loops, refines, nextId, hostedCalls>>

\* the Vectorize and Rasterize buttons
setConversionMode ==
  /\ events < MaxEvents
  /\ ~isProcessing
  /\ \E m \in {"raster-to-vector", "vector-to-raster"} :
       /\ m # conversionMode
       /\ conversionMode' = m
  /\ events' = events + 1
  /\ UNCHANGED <<traceVars, quantVars, pairVars, editorVars, batchItems, isProcessing, config, controllers,
                 abortRef, loops, refines, nextId, hostedCalls>>

\* the GPU Offline button
toggleOfflineMode ==
  /\ events < MaxEvents
  /\ ~isProcessing
  /\ config' = [config EXCEPT !.offlineMode = ~config.offlineMode]
  /\ events' = events + 1
  /\ UNCHANGED <<traceVars, quantVars, pairVars, editorVars, batchItems, isProcessing, conversionMode, controllers,
                 abortRef, loops, refines, nextId, hostedCalls>>

\* applyPreset (the preset buttons, shown in raster-to-vector mode)
applyPreset ==
  /\ events < MaxEvents
  /\ conversionMode = "raster-to-vector"
  /\ \E k \in 1..Len(presets) :
       /\ presets[k].simplification # config.simplification
       /\ config' = [config EXCEPT !.simplification = presets[k].simplification]
  /\ events' = events + 1
  /\ UNCHANGED <<traceVars, quantVars, pairVars, editorVars, batchItems, isProcessing, conversionMode, controllers,
                 abortRef, loops, refines, nextId, hostedCalls>>

\* the simplification slider (shown in raster-to-vector mode, disabled while processing)
changeSimplification ==
  /\ events < MaxEvents
  /\ conversionMode = "raster-to-vector"
  /\ ~isProcessing
  /\ \E v \in SliderInputs :
       /\ v # config.simplification
       /\ config' = [config EXCEPT !.simplification = v]
  /\ events' = events + 1
  /\ UNCHANGED <<traceVars, quantVars, pairVars, editorVars, batchItems, isProcessing, conversionMode, controllers,
                 abortRef, loops, refines, nextId, hostedCalls>>

\* batchItems.filter(item => item.status !== ProcessingStep.COMPLETED)
EveryItem(items) == items
ItemsToProcess(items) == SelectSeq(items, LAMBDA it : it.status # "COMPLETED")

\* processBatch up to its first await: the guard, the new controller, the filter,
\* and the start of the first iteration
BatchStarted ==
  /\ ~isProcessing
  /\ \E k \in 1..Len(batchItems) : batchItems[k].status # "COMPLETED"
  /\ LET itemsToProcess == ItemsToProcess(batchItems)
     IN /\ loops' = Append(loops, [itemsToProcess |-> itemsToProcess, idx |-> 1,
                                   mode |-> conversionMode, config |-> config,
                                   phase |-> StartPhase(conversionMode, config)])
        /\ batchItems' = SetAnalyzing(batchItems, itemsToProcess[1].id, 10)
  /\ isProcessing' = TRUE
  /\ controllers' = Append(controllers, FALSE)
  /\ abortRef' = Len(controllers) + 1
  /\ UNCHANGED <<traceVars, quantVars, pairVars, editorVars, conversionMode, config, refines, nextId, hostedCalls>>

processBatch ==
  /\ events < MaxEvents
  /\ BatchStarted
  /\ events' = events + 1

\* the rest of an iteration once its last await has settled with `out`, then the
\* top of the next iteration (the abort test, the next item set to ANALYZING) or
\* the end of the loop
Iterate(k, out) ==
  LET l == loops[k]
      item == l.itemsToProcess[l.idx]
      marked == IF out.state = "resolved"
                  THEN SetCompleted(batchItems, item.id, out.svg)
                  ELSE SetError(batchItems, item.id, ErrMessage(out.reason))
      last == l.idx = Len(l.itemsToProcess)
  IN IF last \/ Aborted
       THEN /\ batchItems' = marked
            /\ isProcessing' = FALSE
            /\ loops' = [loops EXCEPT ![k] = [l EXCEPT !.idx = l.idx + 1, !.phase = "done"]]
       ELSE /\ batchItems' = SetAnalyzing(marked, l.itemsToProcess[l.idx + 1].id, 10)
            /\ UNCHANGED isProcessing
            /\ loops' = [loops EXCEPT ![k] = [l EXCEPT !.idx = l.idx + 1,
                                                       !.phase = StartPhase(l.mode, l.config)]]

\* await traceImageOffline(item.file, config.simplification) settles
TraceSettles ==
  \E k \in 1..Len(loops) :
    /\ loops[k].phase = "trace"
    /\ \E gl \in BOOLEAN, program \in BOOLEAN :
         Iterate(k, Settles(loops[k].itemsToProcess[loops[k].idx].file,
                            loops[k].config.simplification, gl, program))
    /\ UNCHANGED <<traceVars, quantVars, pairVars, editorVars, conversionMode, config, controllers, abortRef,
                   refines, nextId, hostedCalls, events>>

\* reader.onload: base64Promise resolves and convertToVector is called
ReaderLoads ==
  \E k \in 1..Len(loops) :
    /\ loops[k].phase = "read"
    /\ loops' = [loops EXCEPT ![k].phase = "convert"]
    /\ hostedCalls' = hostedCalls \cup {[by |-> "processBatch", offlineMode |-> config.offlineMode]}
    /\ UNCHANGED <<traceVars, quantVars, pairVars, editorVars, batchItems, isProcessing, conversionMode, config,
                   controllers, abortRef, refines, nextId, events>>

\* the read fails: reader.onload never runs and base64Promise never settles
ReaderFails ==
  \E k \in 1..Len(loops) :
    /\ loops[k].phase = "read"
    /\ loops' = [loops EXCEPT ![k].phase = "hung"]
    /\ UNCHANGED <<traceVars, quantVars, pairVars, editorVars, batchItems, isProcessing, conversionMode, config,
                   controllers, abortRef, refines, nextId, hostedCalls, events>>

\* what convertToVector returns for a file
HostedSvg(f, s) == [hosted |-> TRUE, file |-> f, simplification |-> s]

\* await convertToVector(...) settles: an svg, or the error it rethrows
ConvertSettles ==
  \E k \in 1..Len(loops) :
    /\ loops[k].phase = "convert"
    /\ \E out \in { Fulfilled(HostedSvg(loops[k].itemsToProcess[loops[k].idx].file,
                                        loops[k].config.simplification)),
                    Rejected(ErrorReason("Failed to extract SVG from AI response.")) } :
         Iterate(k, out)
    /\ UNCHANGED <<traceVars, quantVars, pairVars, editorVars, conversionMode, config, controllers, abortRef,
                   refines, nextId, hostedCalls, events>>

\* await item.file.text() settles
TextSettles ==
  \E k \in 1..Len(loops) :
    /\ loops[k].phase = "text"
    /\ \/ /\ loops' = [loops EXCEPT ![k].phase = "render"]
          /\ UNCHANGED <<batchItems, isProcessing>>
       \/ Iterate(k, Rejected(ErrorReason("The file could not be read.")))
    /\ UNCHANGED <<traceVars, quantVars, pairVars, editorVars, conversionMode, config, controllers, abortRef,
                   refines, nextId, hostedCalls, events>>

\* canvas.toDataURL('image/png')
DataUrl(f) == [png |-> TRUE, file |-> f]

\* the promise around img.onload / img.onerror settles
RenderSettles ==
  \E k \in 1..Len(loops) :
    /\ loops[k].phase = "render"
    /\ \E out \in { Fulfilled(DataUrl(loops[k].itemsToProcess[loops[k].idx].file)),
                    Rejected(StringReason("Failed to load SVG")) } :
         Iterate(k, out)
    /\ UNCHANGED <<traceVars, quantVars, pairVars, editorVars, conversionMode, config, controllers, abortRef,
                   refines, nextId, hostedCalls, events>>

\* refineWithAI(id) up to its first await (Refine with Gemini, shown for an item
\* with a result, in raster-to-vector mode, while not processing)
refineWithAI ==
  /\ events < MaxEvents
  /\ ~isProcessing
  /\ conversionMode = "raster-to-vector"
  /\ \E k \in 1..Len(batchItems) :
       /\ batchItems[k].result # Null
       /\ batchItems' = SetAnalyzing(batchItems, batchItems[k].id, 20)
       /\ refines' = Append(refines, [id |-> batchItems[k].id, file |-> batchItems[k].file,
                                      simplification |-> config.simplification, phase |-> "read"])
  /\ events' = events + 1
  /\ UNCHANGED <<traceVars, quantVars, pairVars, editorVars, isProcessing, conversionMode, config, controllers,
                 abortRef, loops, nextId, hostedCalls>>

\* refineWithAI: reader.onload, then convertToVector is called
RefineReaderLoads ==
  \E k \in 1..Len(refines) :
    /\ refines[k].phase = "read"
    /\ refines' = [refines EXCEPT ![k].phase = "convert"]
    /\ hostedCalls' = hostedCalls \cup {[by |-> "refineWithAI", offlineMode |-> config.offlineMode]}
    /\ UNCHANGED <<traceVars, quantVars, pairVars, editorVars, batchItems, isProcessing, conversionMode, config,
                   controllers, abortRef, loops, nextId, events>>

\* refineWithAI: the read fails and base64Promise never settles
RefineReaderFails ==
  \E k \in 1..Len(refines) :
    /\ refines[k].phase = "read"
    /\ refines' = [refines EXCEPT ![k].phase = "hung"]
    /\ UNCHANGED <<traceVars, quantVars, pairVars, editorVars, batchItems, isProcessing, conversionMode, config,
                   controllers, abortRef, loops, nextId, hostedCalls, events>>

\* refineWithAI: await convertToVector(...) settles
RefineSettles ==
  \E k \in 1..Len(refines) :
    /\ refines[k].phase = "convert"
    /\ \/ batchItems' = SetCompleted(batchItems, refines[k].id,
                                     HostedSvg(refines[k].file, refines[k].simplification))
       \/ batchItems' = SetRefineError(batchItems, refines[k].id)
    /\ refines' = [refines EXCEPT ![k].phase = "done"]
    /\ UNCHANGED <<traceVars, quantVars, pairVars, editorVars, isProcessing, conversionMode, config, controllers,
                   abortRef, loops, nextId, hostedCalls, events>>

NextApp ==
  \/ handleImagesSelected
  \/ clearQueue
  \/ cancelBatch
  \/ removeBatchItem
  \/ setConversionMode
  \/ toggleOfflineMode
  \/ applyPreset
  \/ changeSimplification
  \/ processBatch
  \/ TraceSettles
  \/ ReaderLoads
  \/ ReaderFails
  \/ ConvertSettles
  \/ TextSettles
  \/ RenderSettles
  \/ refineWithAI
  \/ RefineReaderLoads
  \/ RefineReaderFails
  \/ RefineSettles

SpecApp == InitApp /\ [][NextApp]_vars

\* every pending promise of a batch loop or a refinement settles, and a
\* FileReader finishes its read one way or the other
FairApp ==
  /\ WF_vars(TraceSettles)
  /\ WF_vars(ReaderLoads \/ ReaderFails)
  /\ WF_vars(ConvertSettles)
  /\ WF_vars(TextSettles)
  /\ WF_vars(RenderSettles)
  /\ WF_vars(RefineReaderLoads \/ RefineReaderFails)
  /\ WF_vars(RefineSettles)

SpecAppFair == SpecApp /\ FairApp

----------------------------------------------------------------------------
(* The batch alone: images are selected once, then only Start and Abort are *)
(* pressed, with the initial settings                                       *)

MaxLoops == 2

InitBatch ==
  /\ TraceOff
  /\ QuantOff
  /\ AppOff
  /\ PairOff
  /\ EditorOff

\* the files dropped in the batch alone
BatchFiles == {RedPixel}

BatchSelect ==
  /\ ImagesSelected(BatchFiles)
  /\ UNCHANGED events

BatchStart ==
  /\ Len(loops) < MaxLoops
  /\ BatchStarted
  /\ UNCHANGED events

BatchCancel ==
  /\ BatchCancelled
  /\ UNCHANGED events

NextBatch ==
  \/ BatchSelect
  \/ BatchStart
  \/ BatchCancel
  \/ TraceSettles

SpecBatch == InitBatch /\ [][NextBatch]_vars

----------------------------------------------------------------------------
(* Several calls of traceImageOffline in progress at the same time *)

MaxCalls == 2

\* the files given to the concurrent calls
PairFiles == {BluePixel, BrokenFile} \cup
             { f \in ColImages : f.w = 2 /\ f.h = 1 /\ f.px[0][0] = Red /\ f.px[0][1] = Blue }

PairSimplifications == {0, 60}

InitPair ==
  /\ TraceOff
  /\ QuantOff
  /\ AppOff
  /\ EditorOff
  /\ calls \in [1..MaxCalls -> { [file |-> f, simplification |-> s, pc |-> "idle",
                                  packedData |-> 0, width |-> 0, height |-> 0,
                                  quantizedColors |-> 0, uniqueColors |-> 0,
                                  settled |-> NoResult]
                                 : f \in PairFiles, s \in PairSimplifications }]
  /\ heap = <<>>

\* new Uint8Array(width * height * 4): a buffer no one else holds
PooledUint8Array(h) == 1
NewUint8Array(h) == Len(h) + 1

\* new Uint32Array(...), new Set(): an object no one else holds
NewObject(h) == Len(h) + 1

\* a write through a reference
Store(h, a, v) == IF a > Len(h) THEN Append(h, v) ELSE [h EXCEPT ![a] = v]

\* traceImageOffline(file, simplification) up to img.src = url
PairCall(i) ==
  /\ calls[i].pc = "idle"
  /\ calls' = [calls EXCEPT ![i].pc = "loading"]
  /\ UNCHANGED <<traceVars, quantVars, appVars, editorVars, heap>>

\* img.onerror
PairOnError(i) ==
  /\ calls[i].pc = "loading"
  /\ ~calls[i].file.ok
  /\ calls' = [calls EXCEPT ![i].pc = "rejected",
                            ![i].settled = Rejected(StringReason("Image load error"))]
  /\ UNCHANGED <<traceVars, quantVars, appVars, editorVars, heap>>

\* img.onload up to the await: processOnGPU runs and returns its promise
PairOnLoad(i) ==
  /\ calls[i].pc = "loading"
  /\ calls[i].file.ok
  /\ \E gl \in BOOLEAN, program \in BOOLEAN :
       LET r == processOnGPU(calls[i].file, calls[i].simplification, gl, program)
           a == NewUint8Array(heap)
       IN IF r.threw
            THEN /\ calls' = [calls EXCEPT ![i].pc = "thrown",
                                           ![i].settled = Rejected(ErrorReason(r.message))]
                 /\ UNCHANGED heap
            ELSE /\ heap' = Store(heap, a, r.packedData)
                 /\ calls' = [calls EXCEPT ![i].pc = "awaiting", ![i].packedData = a,
                                           ![i].width = r.width, ![i].height = r.height]
  /\ UNCHANGED <<traceVars, quantVars, appVars, editorVars>>

\* the catch of img.onload: reject(err)
PairCatch(i) ==
  /\ calls[i].pc = "thrown"
  /\ calls' = [calls EXCEPT ![i].pc = "rejected"]
  /\ UNCHANGED <<traceVars, quantVars, appVars, editorVars, heap>>

\* img.onload after the await: the colour loop, forEach, resolve(svg)
PairContinue(i) ==
  /\ calls[i].pc = "awaiting"
  /\ LET c == calls[i]
         q == NewObject(heap)
         h1 == Store(heap, q, QuantizedColors(heap[c.packedData], c.width, c.height))
         u == NewObject(h1)
         h2 == Store(h1, u, CollectFrom(h1[q], c.width * c.height, 0, NewSet))
         paths == ForEachFrom(h2[q], c.width, c.height, RowStep(c.simplification), h2[u], <<>>)
     IN /\ heap' = h2
        /\ calls' = [calls EXCEPT ![i].pc = "resolved",
                                  ![i].quantizedColors = q, ![i].uniqueColors = u,
                                  ![i].settled = Fulfilled(Svg(c.width, c.height, paths))]
  /\ UNCHANGED <<traceVars, quantVars, appVars, editorVars>>

NextPair ==
  \E i \in 1..MaxCalls :
    \/ PairCall(i)
    \/ PairOnError(i)
    \/ PairOnLoad(i)
    \/ PairCatch(i)
    \/ PairContinue(i)

SpecPair == InitPair /\ [][NextPair]_vars

----------------------------------------------------------------------------
(* Reading a document: the geometry its path data draws *)

\* the rectangle that "M x,y h dx v dy h -dx z" fills
RectOf(cmd) ==
  [x |-> Min(cmd.M[1], cmd.M[1] + cmd.h), y |-> Min(cmd.M[2], cmd.M[2] + cmd.v),
   w |-> Abs(cmd.h), h |-> Abs(cmd.v)]

Rects(path) == { RectOf(path.d[k]) : k \in 1..Len(path.d) }

RECURSIVE AreaFrom(_, _)
AreaFrom(d, k) ==
  IF k > Len(d) THEN 0 ELSE RectOf(d[k]).w * RectOf(d[k]).h + AreaFrom(d, k + 1)

\* total area of the rectangles of a shape
Area(path) == AreaFrom(path.d, 1)

Resolved == pc = "resolved"
Doc == settled.svg

\* the colours present in the quantized buffer
BufferColors == { quantizedColors[i] : i \in 0..(width * height - 1) }

\* the output rows the vectorizer samples
SampledRows == { y \in 0..(height - 1) : y % RowStep(simplification) = 0 }

\* colour c occurs in row r of the quantized buffer
InBufferRow(c, r) == \E x \in 0..(width - 1) : quantizedColors[r * width + x] = c

\* the shapes of the document filled with colour c
ShapesOf(c) == { k \in 1..Len(Doc.paths) : Doc.paths[k].fill = Fill(c) }

\* the colour the preprocessor computes for source pixel (x, y), y = 0 the top
\* row of the decoded image
SourceColor(img, s, x, y) ==
    fragColor(img.px, img.w, img.h, x, y, QFactor(s), 1) * 65536
  + fragColor(img.px, img.w, img.h, x, y, QFactor(s), 2) * 256
  + fragColor(img.px, img.w, img.h, x, y, QFactor(s), 3)

\* the image is a stripe of one colour on its top row over rows of another colour
TopStripe(img) ==
  /\ img.ok
  /\ img.w >= 1
  /\ img.h >= 2
  /\ img.px[0][0] # <<0, 0, 0>>
  /\ \A x \in 0..(img.w - 1) : img.px[0][x] = img.px[0][0]
  /\ \A y \in 1..(img.h - 1) : \A x \in 0..(img.w - 1) :
       img.px[y][x] = img.px[1][0] /\ img.px[y][x] # img.px[0][0]

\* the stripe's colour after preprocessing: not the background, and the colour of
\* no other row
StripeColor == SourceColor(file, simplification, 0, 0)
StripeVisible ==
  /\ TopStripe(file)
  /\ StripeColor # 0
  /\ \A y \in 1..(file.h - 1) : SourceColor(file, simplification, 0, y) # StripeColor

----------------------------------------------------------------------------
(* Claims *)

\* C1: a one-pixel-high stripe on the top row of the source image is drawn in
\* rectangles at svgY = 0 and in none at svgY = height - 1.
C1_TopStripeStaysOnTop ==
  (Resolved /\ StripeVisible) =>
     /\ \E k \in ShapesOf(StripeColor) : \E r \in Rects(Doc.paths[k]) : r.y = 0
     /\ \A k \in ShapesOf(StripeColor) : \A r \in Rects(Doc.paths[k]) : r.y # height - 1

\* C2: the 4x4 image, red with a blue top row, traced with simplification 0,
\* gives exactly two shapes: a blue one that is the rectangle (0, 0, 4, 1) and
\* a red one whose rectangles cover rows 1 to 3.
C2_RedBlueScenario ==
  (Resolved /\ file = Scenario4x4 /\ simplification = 0) =>
     /\ Len(Doc.paths) = 2
     /\ \E b \in 1..2 : \E r \in 1..2 :
          /\ Doc.paths[b].fill = Blue
          /\ Rects(Doc.paths[b]) = { [x |-> 0, y |-> 0, w |-> 4, h |-> 1] }
          /\ Doc.paths[r].fill = Red
          /\ { rc.y : rc \in Rects(Doc.paths[r]) } = {1, 2, 3}
          /\ \A rc \in Rects(Doc.paths[r]) : rc.x = 0 /\ rc.w = 4 /\ rc.h = 1

\* C3, as stated: every colour other than 0 that occurs in the quantized buffer
\* has exactly one shape in the document.
C3_EveryColourOneShape ==
  Resolved => \A c \in BufferColors \ {0} : Cardinality(ShapesOf(c)) = 1

\* C3, amended: a colour other than 0 has exactly one shape when it occurs in a
\* sampled row of the buffer (row height - 1 - svgY, svgY a multiple of rowStep
\* below height), and no shape when it occurs in unsampled rows only.
C3_SampledColourOneShape ==
  Resolved => \A c \in BufferColors \ {0} :
     Cardinality(ShapesOf(c)) =
       IF \E svgY \in SampledRows : InBufferRow(c, height - 1 - svgY) THEN 1 ELSE 0

\* C3 witness: one colour is in a sampled row, another in unsampled rows only
C3_Witness ==
  /\ Resolved
  /\ \E c \in BufferColors \ {0} : \E svgY \in SampledRows : InBufferRow(c, height - 1 - svgY)
  /\ \E c \in BufferColors \ {0} : \A svgY \in SampledRows : ~InBufferRow(c, height - 1 - svgY)

\* the Y at which the rectangles of colour c start
StartRows(c) == UNION { { r.y : r \in Rects(Doc.paths[k]) } : k \in ShapesOf(c) }

\* rectangles of one colour that start at different rows do not overlap in Y
NoOverlapInY(c) ==
  \A k \in ShapesOf(c) : \A r1 \in Rects(Doc.paths[k]) : \A r2 \in Rects(Doc.paths[k]) :
     r1.y < r2.y => r1.y + r1.h <= r2.y

\* C4, as stated: for every colour other than 0 of the buffer, the rectangles
\* of the colour start at every sampled row and at no other, and rectangles of
\* different sampled rows do not overlap in Y.
C4_CoversEverySampledRow ==
  Resolved => \A c \in BufferColors \ {0} : StartRows(c) = SampledRows /\ NoOverlapInY(c)

\* C4, amended: the rectangles of a colour start exactly at the sampled rows
\* svgY whose buffer row height - 1 - svgY holds the colour, each is rowStep
\* high, they are written in increasing Y, and rectangles of different sampled
\* rows do not overlap in Y.
C4_CoversItsSampledRows ==
  Resolved => \A c \in BufferColors \ {0} :
     /\ StartRows(c) = { svgY \in SampledRows : InBufferRow(c, height - 1 - svgY) }
     /\ NoOverlapInY(c)
     /\ \A k \in ShapesOf(c) :
          /\ \A r \in Rects(Doc.paths[k]) : r.h = RowStep(simplification)
          /\ \A i \in 1..(Len(Doc.paths[k].d) - 1) :
               RectOf(Doc.paths[k].d[i]).y <= RectOf(Doc.paths[k].d[i + 1]).y

\* C4 witness: a colour with rectangles at two sampled rows and none at a third
C4_Witness ==
  /\ Resolved
  /\ \E c \in BufferColors \ {0} :
       /\ Cardinality(StartRows(c)) >= 2
       /\ StartRows(c) # SampledRows

\* C5: the document has at most as many shapes as the buffer has distinct
\* colours, and every shape has a total rectangle area of at least 1.
C5_ShapeCountAndArea ==
  (Resolved /\ width >= 1 /\ height >= 1) =>
     /\ Len(Doc.paths) <= Cardinality(BufferColors)
     /\ \A k \in 1..Len(Doc.paths) : Area(Doc.paths[k]) >= 1

\* C5 witness: a buffer with the background and a colour that has no rectangle
C5_Witness ==
  /\ Resolved
  /\ Len(Doc.paths) >= 1
  /\ Len(Doc.paths) + 2 <= Cardinality(BufferColors)

AllBackground ==
  /\ width >= 1
  /\ height >= 1
  /\ \A i \in 0..(width * height - 1) : quantizedColors[i] = 0

\* C6: when every pixel of the quantized buffer is 0x000000 the call resolves
\* with a document that has the image's viewBox and no shape: the forEach has
\* nothing to visit, and the promise is not rejected.
C6_AllBlackResolvesEmpty ==
  /\ (pc = "tracing" /\ AllBackground) =>
        pending = <<>> /\ svgPaths = <<>> /\ settled.state = "pending"
  /\ (Resolved /\ AllBackground) =>
        /\ settled.state = "resolved"
        /\ Doc.viewBox = <<0, 0, file.w, file.h>>
        /\ Doc.paths = <<>>

\* C6 witness: an image of several pixels whose buffer is all background
C6_Witness == Resolved /\ AllBackground /\ width * height >= 4

C8_QuantizeIdempotent ==
  qpc = "again" => requantized = stored

\* C8 witness: a value the framebuffer clamped to 255, which is no multiple of qFactor
C8_Witness ==
  /\ qpc = "again"
  /\ stored = 255
  /\ 255 % u_qFactor # 0
  /\ quantize(channel, u_qFactor) > 255

\* C9: an image that loads with width 0 or height 0 makes the call reject, and
\* no document is produced.
C9_ZeroSizeRejects ==
  (file.ok /\ (file.w = 0 \/ file.h = 0)) =>
     /\ pc \notin {"processed", "tracing", "resolved"}
     /\ settled.state # "resolved"

----------------------------------------------------------------------------
(* Reading the queue against a batch loop *)

InQueue(id) == \E i \in 1..Len(batchItems) : batchItems[i].id = id
QueueItem(id) == batchItems[CHOOSE i \in 1..Len(batchItems) : batchItems[i].id = id]

\* no refinement was ever requested for the item
NoRefine(id) == \A r \in 1..Len(refines) : refines[r].id # id

\* loop k traces offline, is the latest loop, and no controller was ever aborted
\* up to it: nothing but loop k has written to its items since it started
UndisturbedTrace(k) ==
  /\ k = Len(loops)
  /\ \A c \in 1..k : ~controllers[c]
  /\ loops[k].mode = "raster-to-vector"
  /\ loops[k].config.offlineMode

DeviceMessages == { [message |-> "WebGL 2 not supported."],
                    [message |-> "Failed to compile shaders."] }

\* what one attempted item must look like, from its own file and the loop's
\* simplification alone
AttemptedAlone(cur, it, s) ==
  \/ /\ cur.status = "COMPLETED"
     /\ it.file.ok
     /\ cur.result = Settles(it.file, s, TRUE, TRUE).svg
     /\ cur.progress = 100
     /\ cur.error = it.error
  \/ /\ cur.status = "ERROR"
     /\ cur.error # Null
     /\ IF it.file.ok THEN cur.error \in DeviceMessages
                      ELSE cur.error = [message |-> "Processing failed"]
     /\ cur.result = it.result
     /\ cur.progress = 0

\* C10: in a batch that traces offline and is not cancelled, an item whose trace
\* fails (the file does not decode, or no WebGL 2 device or shader program) is
\* set to ERROR with a non-null error message; every other attempted item is
\* COMPLETED with the result of its own file or ERROR by its own failure, the
\* item in flight is ANALYZING, the items not yet reached are untouched, and the
\* loop ends only after the last item.
C10_FailureIsolation ==
  \A k \in 1..Len(loops) :
    UndisturbedTrace(k) =>
      LET l == loops[k]
      IN /\ l.phase \in {"trace", "done"}
         /\ l.phase = "done" => l.idx = Len(l.itemsToProcess) + 1
         /\ \A i \in 1..Len(l.itemsToProcess) :
              LET it == l.itemsToProcess[i]
              IN (InQueue(it.id) /\ NoRefine(it.id)) =>
                   LET cur == QueueItem(it.id)
                   IN /\ cur.file = it.file
                      /\ i < l.idx => AttemptedAlone(cur, it, l.config.simplification)
                      /\ i = l.idx => /\ cur.status = "ANALYZING"
                                      /\ cur.progress = 10
                                      /\ cur.result = it.result
                                      /\ cur.error = it.error
                      /\ i > l.idx => cur = it

\* a finished batch in which an item that failed to decode is followed by an
\* item that was traced
C10_Witness ==
  \E k \in 1..Len(loops) :
    /\ UndisturbedTrace(k)
    /\ loops[k].phase = "done"
    /\ \E i, j \in 1..Len(loops[k].itemsToProcess) :
         LET a == loops[k].itemsToProcess[i]
             b == loops[k].itemsToProcess[j]
         IN /\ i < j
            /\ ~a.file.ok
            /\ InQueue(a.id) /\ QueueItem(a.id).status = "ERROR"
            /\ InQueue(b.id) /\ NoRefine(b.id)
            /\ QueueItem(b.id).status = "COMPLETED"
            /\ QueueItem(b.id).result = Settles(BluePixel, loops[k].config.simplification, TRUE, TRUE).svg

----------------------------------------------------------------------------
(* Cancellation *)

\* C11: cancelBatch is observed only between items. While a loop has an item
\* being traced, calling cancelBatch changes neither the loop nor any item; the
\* only step that moves the loop is the settling of that item's trace, which
\* sets the item (if still queued) to COMPLETED or ERROR whether or not the
\* signal is aborted; the abort signal is read only then, before the next item:
\* aborted, the loop ends, and a next item is started only if it was not aborted.
C11_CancelBetweenItems ==
  [][ /\ (isProcessing /\ ~isProcessing' /\ loops' = loops) => batchItems' = batchItems
      /\ \A k \in 1..Len(loops) :
           loops[k].phase = "trace" =>
             LET l == loops[k]
                 id == l.itemsToProcess[l.idx].id
                 aborted == abortRef # 0 /\ controllers[abortRef]
             IN \/ loops'[k] = l
                \/ /\ loops'[k].idx = l.idx + 1
                   /\ \A q \in 1..Len(batchItems') :
                        batchItems'[q].id = id => batchItems'[q].status \in {"COMPLETED", "ERROR"}
                   /\ aborted => loops'[k].phase = "done"
                   /\ loops'[k].phase = "trace" => ~aborted
    ]_vars

\* cancelBatch was called while the first of two items was being traced: the
\* trace has settled, the item is COMPLETED, and the loop ended before the second
C11_Witness ==
  \E k \in 1..Len(loops) :
    /\ controllers[k]
    /\ loops[k].phase = "done"
    /\ Len(loops[k].itemsToProcess) = 2
    /\ loops[k].idx = 2
    /\ InQueue(loops[k].itemsToProcess[1].id)
    /\ QueueItem(loops[k].itemsToProcess[1].id).status = "COMPLETED"
    /\ InQueue(loops[k].itemsToProcess[2].id)
    /\ QueueItem(loops[k].itemsToProcess[2].id).status = "IDLE"

----------------------------------------------------------------------------
(* Concurrent calls *)

\* the typed arrays and the set a call holds
ObjectsOf(i) == {calls[i].packedData, calls[i].quantizedColors, calls[i].uniqueColors} \ {0}

\* what the call returns when it runs alone
Alone(i) == { Settles(calls[i].file, calls[i].simplification, gl, program)
              : gl \in BOOLEAN, program \in BOOLEAN }

\* C12: calls of traceImageOffline that are in progress at the same time,
\* interleaved in any order at their awaits, share no buffer and no colour set,
\* and each settles with what it settles with when run alone on its own file.
C12_ConcurrentCallsIndependent ==
  /\ \A i, j \in 1..MaxCalls : i # j => ObjectsOf(i) \cap ObjectsOf(j) = {}
  /\ \A i \in 1..MaxCalls :
       /\ calls[i].settled # NoResult => calls[i].settled \in Alone(i)
       /\ calls[i].pc = "resolved" =>
            calls[i].settled = Settles(calls[i].file, calls[i].simplification, TRUE, TRUE)
       /\ calls[i].pc = "awaiting" =>
            heap[calls[i].packedData] =
              processOnGPU(calls[i].file, calls[i].simplification, TRUE, TRUE).packedData

\* two calls on different images have both resolved, and each ran its
\* preprocessing while the other was waiting for its own preprocessing result
C12_Witness ==
  \E i, j \in 1..MaxCalls :
    /\ calls[i].file.ok /\ calls[j].file.ok
    /\ calls[i].file # calls[j].file
    /\ calls[i].pc = "resolved" /\ calls[j].pc = "resolved"
    /\ calls[i].settled # calls[j].settled
    /\ calls[i].packedData < calls[j].packedData
    /\ calls[j].packedData < calls[i].quantizedColors
    /\ calls[i].quantizedColors < calls[j].quantizedColors

----------------------------------------------------------------------------
(* Offline mode *)

\* C13: config.offlineMode is true in the initial state, and no operation of the
\* App calls the hosted-model tracer convertToVector in a state where
\* config.offlineMode is true.
C13_OfflineModeNeverCallsHosted ==
  /\ InitialConfig.offlineMode
  /\ \A c \in hostedCalls : ~c.offlineMode

----------------------------------------------------------------------------
(* The returned document *)

\* the attributes of the svg root besides its children, and of a path
RootAttributes == {"viewBox", "xmlns", "shapeRendering"}
PathAttributes == {"d", "fill"}

\* a subpath as the template writes it: M x,y h dx v dy h -dx z
WellFormedCmd(cmd) ==
  /\ DOMAIN cmd = {"M", "h", "v", "hBack"}
  /\ cmd.M \in Nat \X Nat
  /\ cmd.h \in Nat
  /\ cmd.v \in Nat
  /\ cmd.hBack = 0 - cmd.h

\* C14: for an image of width w >= 1 and height h >= 1 the returned document is
\* one svg root with viewBox exactly 0 0 w h, the SVG namespace and crispEdges
\* shape rendering; its children are path elements only, each with a non-empty
\* d attribute and an rgb(r,g,b) fill with channels in 0..255; no attribute can
\* hold a reference to an external resource.
C14_DocumentWellFormed ==
  (Resolved /\ file.w >= 1 /\ file.h >= 1) =>
    /\ DOMAIN Doc = RootAttributes \cup {"paths"}
    /\ Doc.viewBox = <<0, 0, file.w, file.h>>
    /\ Doc.xmlns = "http://www.w3.org/2000/svg"
    /\ Doc.shapeRendering = "crispEdges"
    /\ \A k \in 1..Len(Doc.paths) :
         /\ DOMAIN Doc.paths[k] = PathAttributes
         /\ Doc.paths[k].d # <<>>
         /\ \A n \in 1..Len(Doc.paths[k].d) : WellFormedCmd(Doc.paths[k].d[n])
         /\ Doc.paths[k].fill \in (0..255) \X (0..255) \X (0..255)

\* a document of an image that is not square, with two shapes
C14_Witness ==
  /\ Resolved
  /\ file.w >= 1 /\ file.h >= 1
  /\ file.w # file.h
  /\ Len(Doc.paths) >= 2

----------------------------------------------------------------------------
(* The kernel *)

RECURSIVE SumFrom(_, _)
SumFrom(sq, k) == IF k > Len(sq) THEN 0 ELSE sq[k] + SumFrom(sq, k + 1)

\* the sum of the 25 weights, in thousandths
KernelSum == SumFrom(w, 1)

\* every pixel of the image has the colour of its first pixel
Uniform(img) ==
  \A y \in 0..(img.h - 1), x \in 0..(img.w - 1) : img.px[y][x] = img.px[0][0]

\* C15: the 25 weights of the kernel sum to exactly 1, so blurring a uniformly
\* coloured image leaves every channel of every pixel unchanged before
\* quantization.
C15_KernelSumsToOne ==
  /\ KernelSum = 1000
  /\ (file.ok /\ file.w >= 1 /\ file.h >= 1 /\ Uniform(file)) =>
       \A y \in 0..(file.h - 1), x \in 0..(file.w - 1), ch \in 1..3 :
         blurred(texImage2D(file), file.w, file.h, x, y, ch) = 1000 * file.px[0][0][ch]

----------------------------------------------------------------------------
(* The simplification setting *)

\* C16: after any sequence of preset selections and slider changes,
\* config.simplification is an integer in 0..100 (every preset and every slider
\* position is), so every call of traceImageOffline made by a batch loop gets a
\* simplification in 0..100.
C16_SimplificationInRange ==
  /\ config.simplification \in 0..100
  /\ \A k \in 1..Len(loops) : loops[k].config.simplification \in 0..100
  /\ \A p \in 1..Len(presets) : presets[p].simplification \in 0..100
  /\ SliderValues \subseteq 0..100

\* a batch loop that traces offline with the simplification set by the slider
C16_Witness ==
  \E k \in 1..Len(loops) :
    /\ loops[k].mode = "raster-to-vector"
    /\ loops[k].config.offlineMode
    /\ loops[k].phase = "trace"
    /\ loops[k].config.simplification = 100

----------------------------------------------------------------------------
(* Rows and runs *)

\* the packed colour a fill stands for
PackedFill(fill) == fill[1] * 65536 + fill[2] * 256 + fill[3]

\* the pixel the quantized buffer holds at column x of buffer row r
BufferPixel(r, x) == quantizedColors[r * width + x]

\* C17: every rectangle of the document at output row svgY was derived from
\* buffer row height - 1 - svgY, a row in 0..height-1: all columns it spans hold
\* the rectangle's colour in that buffer row.
C17_ReadsMirroredRow ==
  (Resolved /\ height >= 1) =>
    \A k \in 1..Len(Doc.paths) : \A n \in 1..Len(Doc.paths[k].d) :
      LET cmd == Doc.paths[k].d[n]
          svgY == cmd.M[2]
          r == height - 1 - svgY
      IN /\ r \in 0..(height - 1)
         /\ \A x \in cmd.M[1]..(cmd.M[1] + cmd.h - 1) :
              /\ x \in 0..(width - 1)
              /\ BufferPixel(r, x) = PackedFill(Doc.paths[k].fill)

\* a rectangle at output row 0 whose colour is in the last buffer row and not
\* in buffer row 0
C17_Witness ==
  /\ Resolved
  /\ height >= 2
  /\ \E k \in 1..Len(Doc.paths) : \E n \in 1..Len(Doc.paths[k].d) :
       /\ Doc.paths[k].d[n].M[2] = 0
       /\ InBufferRow(PackedFill(Doc.paths[k].fill), height - 1)
       /\ ~InBufferRow(PackedFill(Doc.paths[k].fill), 0)

\* the maximal runs of colour c in buffer row r, as half-open spans <<a, b>>
MaximalRuns(c, r) ==
  { s \in (0..(width - 1)) \X (1..width) :
      /\ s[1] < s[2]
      /\ \A x \in s[1]..(s[2] - 1) : BufferPixel(r, x) = c
      /\ s[1] = 0 \/ BufferPixel(r, s[1] - 1) # c
      /\ s[2] = width \/ BufferPixel(r, s[2]) # c }

\* the subpaths written for colour c at output row svgY, in document order
CmdsAt(c, svgY) ==
  IF ShapesOf(c) = {} THEN <<>>
  ELSE SelectSeq(Doc.paths[CHOOSE k \in ShapesOf(c) : TRUE].d, LAMBDA cmd : cmd.M[2] = svgY)

\* C18: for every colour and every sampled row, the rectangles written for the
\* colour in that row are exactly the maximal runs of the colour in the row the
\* vectorizer reads: one rectangle per run, as the span [startX, endX) with width
\* endX - startX >= 1, from left to right; a run that reaches the last column
\* ends at x = width.
C18_RunsExact ==
  (Resolved /\ width >= 1 /\ height >= 1) =>
    \A c \in BufferColors \ {0} : \A svgY \in SampledRows :
      LET cmds == CmdsAt(c, svgY)
          runs == MaximalRuns(c, height - 1 - svgY)
      IN /\ { <<cmds[n].M[1], cmds[n].M[1] + cmds[n].h>> : n \in 1..Len(cmds) } = runs
         /\ Len(cmds) = Cardinality(runs)
         /\ \A n \in 1..Len(cmds) : cmds[n].h >= 1
         /\ \A n \in 1..(Len(cmds) - 1) : cmds[n].M[1] + cmds[n].h < cmds[n + 1].M[1]

\* a sampled row with two runs of one colour, the second reaching the last column
C18_Witness ==
  /\ Resolved
  /\ \E c \in BufferColors \ {0} : \E svgY \in SampledRows :
       /\ Len(CmdsAt(c, svgY)) = 2
       /\ CmdsAt(c, svgY)[2].M[1] + CmdsAt(c, svgY)[2].h = width

\* C19: rowStep is max(1, floor(simplification / 20)), a value in 1..5 for every
\* simplification in 0..100; the rectangles of a document start only at output
\* rows 0, rowStep, 2*rowStep, ... below height, each such row that holds a
\* colour has a rectangle, and every rectangle has height exactly rowStep.
C19_RowSampling ==
  /\ \A s \in 0..100 : Max(1, s \div 20) \in 1..5
  /\ (Resolved /\ width >= 1 /\ height >= 1) =>
       LET step == Max(1, simplification \div 20)
           rows == { y \in 0..(height - 1) : y % step = 0 }
       IN /\ \A k \in 1..Len(Doc.paths) : \A n \in 1..Len(Doc.paths[k].d) :
               /\ Doc.paths[k].d[n].M[2] \in rows
               /\ Doc.paths[k].d[n].v = step
          /\ \A y \in rows :
               (\E x \in 0..(width - 1) : BufferPixel(height - 1 - y, x) # 0) =>
                 \E k \in 1..Len(Doc.paths) : \E n \in 1..Len(Doc.paths[k].d) :
                   Doc.paths[k].d[n].M[2] = y

\* a document made with rowStep 2 from an image of height 3: rows 0 and 2 are
\* scanned, row 1 is not
C19_Witness ==
  /\ Resolved
  /\ simplification = 40
  /\ height = 3
  /\ \E k \in 1..Len(Doc.paths) : \E n \in 1..Len(Doc.paths[k].d) : Doc.paths[k].d[n].M[2] = 2
  /\ \E x \in 0..(width - 1) : BufferPixel(height - 1 - 1, x) # 0

----------------------------------------------------------------------------
(* Rounding *)

\* C20: for a blurred channel value c in 0..255 and qFactor = max(4,
\* floor(simplification / 3)), the level chosen is floor(c / qFactor + 1/2), the
\* nearest level with a tie going up, never the truncated one, and the stored
\* channel is that level times qFactor, limited to 0..255.
C20_RoundsToNearest ==
  /\ qpc # "off" => u_qFactor \in { Max(4, s \div 3) : s \in 0..100 }
  /\ qpc \in {"stored", "again"} =>
       \E level \in 0..64 :
         /\ (2 * level - 1) * 1000 * u_qFactor <= 2 * channel
         /\ 2 * channel < (2 * level + 1) * 1000 * u_qFactor
         /\ stored = Min(255, level * u_qFactor)
         /\ stored \in 0..255

\* a value half way between two levels, stored as the upper one
C20_Witness ==
  /\ qpc = "stored"
  /\ \E level \in 1..64 :
       /\ 2 * channel = (2 * level - 1) * 1000 * u_qFactor
       /\ stored = level * u_qFactor

----------------------------------------------------------------------------
(* Packing *)

\* the three colour channels read back for buffer pixel i
Channels3(i) == << packedData[4 * i], packedData[4 * i + 1], packedData[4 * i + 2] >>

\* C21: the packed colour of a read-back pixel (R,G,B) is R*2^16 + G*2^8 + B, a
\* value in 0..0xFFFFFF; two pixels have the same packed colour exactly when
\* their three channels are equal; and the fill of a shape is rgb(R,G,B) with the
\* channels of the pixels its rectangles were formed from.
C21_PackUnpackRoundTrip ==
  (Resolved /\ width >= 1 /\ height >= 1) =>
    /\ \A i \in 0..(width * height - 1) :
         /\ Channels3(i) \in (0..255) \X (0..255) \X (0..255)
         /\ quantizedColors[i] =
              Channels3(i)[1] * 65536 + Channels3(i)[2] * 256 + Channels3(i)[3]
         /\ quantizedColors[i] \in 0..16777215
    /\ \A i, j \in 0..(width * height - 1) :
         quantizedColors[i] = quantizedColors[j] <=> Channels3(i) = Channels3(j)
    /\ \A k \in 1..Len(Doc.paths) : \A n \in 1..Len(Doc.paths[k].d) :
         LET cmd == Doc.paths[k].d[n]
             r == height - 1 - cmd.M[2]
         IN \A x \in cmd.M[1]..(cmd.M[1] + cmd.h - 1) :
              Doc.paths[k].fill = Channels3(r * width + x)

\* a document with two shapes, one filled with a colour whose red and blue
\* channels are both set and differ
C21_Witness ==
  /\ Resolved
  /\ Len(Doc.paths) >= 2
  /\ \E k \in 1..Len(Doc.paths) :
       /\ Doc.paths[k].fill[1] > 0
       /\ Doc.paths[k].fill[3] > 0
       /\ Doc.paths[k].fill[1] # Doc.paths[k].fill[3]

----------------------------------------------------------------------------
(* Rectangles and the canvas *)

\* every rectangle of the document, with the index of its shape and subpath
AllRects ==
  { [k |-> k, n |-> n, rect |-> RectOf(Doc.paths[k].d[n])] :
      <<k, n>> \in UNION { { <<a, b>> : b \in 1..Len(Doc.paths[a].d) } : a \in 1..Len(Doc.paths) } }

\* C22: every rectangle of the document lies inside the viewBox: 0 <= x,
\* x + width <= image width, 0 <= y and y + height <= image height.
C22_RectsInsideViewBox ==
  (Resolved /\ width >= 1 /\ height >= 1) =>
    \A e \in AllRects :
      /\ 0 <= e.rect.x
      /\ e.rect.x + e.rect.w <= Doc.viewBox[3]
      /\ 0 <= e.rect.y
      /\ e.rect.y + e.rect.h <= Doc.viewBox[4]

\* two rectangles share a point of the canvas
Overlap(a, b) ==
  /\ a.x < b.x + b.w
  /\ b.x < a.x + a.w
  /\ a.y < b.y + b.h
  /\ b.y < a.y + a.h

\* C23: the rectangles of one document are pairwise non-overlapping, across all
\* colours and all sampled rows: no point is covered by two rectangles.
C23_RectsDisjoint ==
  Resolved =>
    \A e1, e2 \in AllRects :
      (e1.k # e2.k \/ e1.n # e2.n) => ~Overlap(e1.rect, e2.rect)

\* a document with rectangles of two colours side by side in one row and a
\* rectangle in another row
C23_Witness ==
  /\ Resolved
  /\ \E e1, e2, e3 \in AllRects :
       /\ e1.k # e2.k
       /\ e1.rect.y = e2.rect.y
       /\ e1.rect.x + e1.rect.w = e2.rect.x
       /\ e3.rect.y # e1.rect.y

----------------------------------------------------------------------------
(* Cancelling and starting again *)

\* C24: once cancelBatch has been called, the loop that was running sets no
\* further item to ANALYZING and starts no further trace: when the trace it has
\* in flight settles, the loop ends, whatever the user has done in between.
C24_CancelledLoopStops ==
  [][ \A k \in 1..Len(loops) :
        (controllers[k] /\ loops[k].phase = "trace") =>
          \/ loops'[k] = loops[k]
          \/ loops'[k].phase = "done"
    ]_vars

\* the loops that have an item being traced
Tracing == { k \in 1..Len(loops) : loops[k].phase = "trace" }

\* C25: at most one batch loop is active and at most one item is being traced at
\* any time.
C25_OneLoopAtATime == Cardinality(Tracing) <= 1

----------------------------------------------------------------------------
(* Termination of a batch *)

\* loop k was started and has not been cancelled
Running(k) == Len(loops) >= k /\ ~controllers[k]

\* loop k was cancelled, or it has ended with isProcessing false and each of its
\* items that is still queued COMPLETED or ERROR
Ended(k) ==
  /\ Len(loops) >= k
  /\ \/ controllers[k]
     \/ /\ loops[k].phase = "done"
        /\ ~isProcessing
        /\ \A i \in 1..Len(loops[k].itemsToProcess) :
             InQueue(loops[k].itemsToProcess[i].id) =>
               QueueItem(loops[k].itemsToProcess[i].id).status \in {"COMPLETED", "ERROR"}

\* C26: under fair scheduling every batch loop that is started and not cancelled
\* eventually ends, with isProcessing false and every item it was given in
\* status COMPLETED or ERROR, in offline and in hosted mode, also when reading
\* or decoding a file fails.
C26_BatchTerminates ==
  \A k \in 1..MaxEvents : Running(k) ~> Ended(k)

----------------------------------------------------------------------------
(* The items a batch run touches *)

\* the item with identifier id is one of those loop l was given
Given(l, id) == \E i \in 1..Len(l.itemsToProcess) : l.itemsToProcess[i].id = id

\* the place in the queue of the item with identifier id (0 when not queued)
PlaceOf(items, id) ==
  IF \E j \in 1..Len(items) : items[j].id = id
    THEN CHOOSE j \in 1..Len(items) : items[j].id = id
    ELSE 0

\* loop k takes a step: it is started, or its record changes
Acts(k) == k > Len(loops) \/ loops'[k] # loops[k]

\* C27: a batch run is given exactly the items that are not COMPLETED when it
\* starts, in queue order; an item that is COMPLETED at that moment is not
\* given to it, and no step of the run changes the status, result or progress
\* of an item it was not given; the run attempts the items it was given one at
\* a time in that order, each once, and ends before the last of them only when
\* it finds the batch cancelled.
C27_CompletedItemsSkipped ==
  [][ \A k \in 1..Len(loops') :
        Acts(k) =>
          LET l == loops'[k]
          IN /\ k > Len(loops) =>
                  /\ l.idx = 1
                  /\ \A j \in 1..Len(batchItems) :
                       (batchItems[j].status # "COMPLETED") <=> Given(l, batchItems[j].id)
                  /\ \A i \in 1..Len(l.itemsToProcess) :
                       /\ PlaceOf(batchItems, l.itemsToProcess[i].id) > 0
                       /\ \A h \in 1..(i - 1) :
                            PlaceOf(batchItems, l.itemsToProcess[h].id)
                              < PlaceOf(batchItems, l.itemsToProcess[i].id)
             /\ k <= Len(loops) =>
                  /\ l.itemsToProcess = loops[k].itemsToProcess
                  /\ l.idx \in {loops[k].idx, loops[k].idx + 1}
                  /\ (l.phase = "done" /\ l.idx <= Len(l.itemsToProcess)) => Aborted
             /\ Len(batchItems') = Len(batchItems)
             /\ \A j \in 1..Len(batchItems) :
                  ~Given(l, batchItems[j].id) =>
                    /\ batchItems'[j].status = batchItems[j].status
                    /\ batchItems'[j].result = batchItems[j].result
                    /\ batchItems'[j].progress = batchItems[j].progress
    ]_vars

\* a second run has ended after attempting every item it was given, and an item
\* that was COMPLETED when it started, which it was not given, is still
\* COMPLETED with its result
C27_Witness ==
  \E k \in 2..Len(loops) :
    /\ loops[k].phase = "done"
    /\ loops[k].idx = Len(loops[k].itemsToProcess) + 1
    /\ \E j \in 1..Len(batchItems) :
         /\ ~Given(loops[k], batchItems[j].id)
         /\ batchItems[j].status = "COMPLETED"
         /\ batchItems[j].result # Null
         /\ batchItems[j].progress = 100

----------------------------------------------------------------------------
(* The object URL of a call *)

\* C28: when a call of traceImageOffline has settled, by resolving, by
\* rejecting after a preprocessing failure or by rejecting after an image load
\* error, the object URL it created for the file has been revoked.
C28_UrlRevokedOnCompletion ==
  pc \in {"resolved", "rejected"} => url = "revoked"

----------------------------------------------------------------------------
(* The vector editor (src/components/VectorEditor.tsx) *)

MaxShapes == 3

\* fill attributes of the documents edited
EditorFills == {"rgb(255,0,0)", "rgb(0,0,255)"}

\* a path element of a document
PathElement(fill) == [tagName |-> "path", d |-> "M0,0h1v1h-1z", fill |-> fill]

\* the document with path elements of fills fs
DocOf(fs) == [svg |-> TRUE, elements |-> [i \in 1..Len(fs) |-> PathElement(fs[i])]]

\* the values of the svgString prop: documents of up to MaxShapes path elements,
\* and a string in which DOMParser finds no svg element
EditorDocs ==
  UNION { { DocOf(fs) : fs \in [1..n -> EditorFills] } : n \in 0..MaxShapes }
  \cup { [svg |-> FALSE, elements |-> <<>>] }

\* selectedIndex: null, or the 0-based index i
Selected(i) == [index |-> i]

\* the object the parse effect makes of the i-th element (0-based)
EditableShape(el, i) ==
  [id |-> i, type |-> el.tagName, d |-> el.d, originalPath |-> el.d,
   fill |-> el.fill, x |-> 0, y |-> 0, scale |-> 1]

\* the parse effect: setShapes(paths) when the string has an svg element,
\* nothing otherwise; selectedIndex is not touched
ParseEffect(doc, prev) ==
  IF doc.svg
    THEN [i \in 1..Len(doc.elements) |-> EditableShape(doc.elements[i], i - 1)]
    ELSE prev

\* the editor is mounted on an item's result and its parse effect has run
InitEditor ==
  /\ TraceOff
  /\ QuantOff
  /\ AppOff
  /\ PairOff
  /\ svgString \in EditorDocs
  /\ shapes = ParseEffect(svgString, <<>>)
  /\ selectedIndex = Null

\* the component renders: the properties panel, shown when selectedIndex is not
\* null, reads shapes[selectedIndex].fill and .scale, which throws when that
\* element is undefined and takes the component off the screen
Renders == IF selectedIndex = Null THEN TRUE ELSE selectedIndex.index < Len(shapes)

\* a layer button or a path is pressed: setSelectedIndex(i)
selectShape ==
  /\ Renders
  /\ \E i \in 0..(Len(shapes) - 1) :
       /\ selectedIndex # Selected(i)
       /\ selectedIndex' = Selected(i)
  /\ UNCHANGED <<traceVars, quantVars, appVars, pairVars, svgString, shapes>>

\* the canvas is clicked: setSelectedIndex(null)
clearSelection ==
  /\ Renders
  /\ selectedIndex # Null
  /\ selectedIndex' = Null
  /\ UNCHANGED <<traceVars, quantVars, appVars, pairVars, svgString, shapes>>

\* handleColorChange(color)
handleColorChange ==
  /\ Renders
  /\ selectedIndex # Null
  /\ \E color \in EditorFills :
       /\ color # shapes[selectedIndex.index + 1].fill
       /\ shapes' = [i \in 1..Len(shapes) |->
                       IF i - 1 = selectedIndex.index
                         THEN [shapes[i] EXCEPT !.fill = color]
                         ELSE shapes[i]]
  /\ UNCHANGED <<traceVars, quantVars, appVars, pairVars, svgString, selectedIndex>>

\* deleteSelected
deleteSelected ==
  /\ Renders
  /\ selectedIndex # Null
  /\ shapes' = [i \in 1..(Len(shapes) - 1) |->
                  IF i - 1 < selectedIndex.index THEN shapes[i] ELSE shapes[i + 1]]
  /\ selectedIndex' = Null
  /\ UNCHANGED <<traceVars, quantVars, appVars, pairVars, svgString>>

\* the item's result is replaced while the editor is open (a refineWithAI or a
\* batch loop started before the editor was opened settles): the svgString prop
\* changes and the parse effect runs again
svgStringReplaced ==
  /\ Renders
  /\ \E doc \in EditorDocs :
       /\ doc # svgString
       /\ svgString' = doc
       /\ shapes' = ParseEffect(doc, shapes)
  /\ UNCHANGED <<traceVars, quantVars, appVars, pairVars, selectedIndex>>

NextEditor ==
  \/ selectShape
  \/ clearSelection
  \/ handleColorChange
  \/ deleteSelected
  \/ svgStringReplaced

SpecEditor == InitEditor /\ [][NextEditor]_vars

\* C29: while the editor is open, selectedIndex is null or an index of the
\* current shapes list, whatever shapes were selected or deleted and whatever
\* documents replaced the one being edited.
C29_SelectedIndexValid ==
  svgString # NoEditor =>
    IF selectedIndex = Null
      THEN TRUE
      ELSE selectedIndex.index \in 0..(Len(shapes) - 1)

====
